---- MODULE Spec2Model ----
(***************************************************************************)
(* A model of polish-language (src-tauri/src/main.rs): the settings store  *)
(* (Settings, load_settings, save_settings, save_api_key_for_provider,     *)
(* legacy key migration) and the hotkey pipelines that polish or translate *)
(* the selected text through a remote provider.                            *)
(*                                                                         *)
(* Strings that the code only stores and compares are TLA+ strings; texts  *)
(* whose characters matter (the captured selection, the provider's answer) *)
(* are sequences of characters.  Option<T> is <<>> (None) or <<v>> (Some). *)
(***************************************************************************)
EXTENDS Integers, Sequences, FiniteSets, TLC

VARIABLES
    file,       \* the persisted settings.json
    s,          \* the Settings value most recently held by a settings call
    op,         \* the last settings call: its name, arguments and return
    runs,       \* the spawned hotkey tasks, by run id
    tooltip,    \* the tray tooltip written by update_tray_icon_processing
    clipboard   \* the system clipboard

vars == <<file, s, op, runs, tooltip, clipboard>>

----------------------------------------------------------------------------
(* Option<T> *)

None == <<>>
Some(x) == <<x>>
IsSome(o) == o # <<>>
Unwrap(o) == o[1]

----------------------------------------------------------------------------
(* Settings *)

ProviderIds == {"openai", "gemini", "custom"}
KeyedProviders == {"openai", "gemini"}
Keys == {"", "sk-A", "sk-B"}

\* HashMap<String, String>: a function whose domain is the set of its keys.
KeyMaps == UNION {[D -> Keys] : D \in SUBSET KeyedProviders}

CustomKeyMaps == {[p \in {"custom"} |-> "sk-A"]}

EmptyMap == [p \in {} |-> ""]

default_sound_enabled == TRUE

default_notifications_enabled == FALSE

default_translate_shortcut == "CmdOrCtrl+Alt+T"

Default ==
    [shortcut |-> "CmdOrCtrl+Alt+P",
     translate_shortcut |-> default_translate_shortcut,
     api_keys |-> EmptyMap,
     api_key |-> None,
     model |-> "gpt-3.5-turbo",
     base_url |-> "https://api.openai.com/v1",
     prompt |-> "Please polish and improve the following text while maintaining its original meaning and tone:",
     provider |-> "openai",
     sound_enabled |-> default_sound_enabled,
     notifications_enabled |-> default_notifications_enabled]

Models == {"gpt-3.5-turbo", "gemini-pro"}

\* Every Settings value over the sets above (the other strings stay at
\* their defaults).
AllSettings ==
    {[Default EXCEPT !.api_keys = m, !.api_key = k, !.provider = p,
                     !.model = md, !.sound_enabled = snd,
                     !.notifications_enabled = ntf] :
        m \in KeyMaps \cup CustomKeyMaps,
        k \in {None} \cup {Some(x) : x \in Keys},
        p \in ProviderIds, md \in Models, snd \in BOOLEAN, ntf \in BOOLEAN}

\* HashMap::remove
MapRemove(m, k) == [x \in (DOMAIN m) \ {k} |-> m[x]]

\* HashMap::insert
MapInsert(m, k, v) == [x \in (DOMAIN m) \cup {k} |-> IF x = k THEN v ELSE m[x]]

get_current_api_key(self) ==
    IF self.provider \in DOMAIN self.api_keys
        THEN self.api_keys[self.provider]
        ELSE ""

set_api_key_keep_empty(self, provider, api_key) ==
    [self EXCEPT !.api_keys = MapInsert(self.api_keys, provider, api_key)]

set_api_key(self, provider, api_key) ==
    IF api_key = ""
        THEN [self EXCEPT !.api_keys = MapRemove(self.api_keys, provider)]
        ELSE [self EXCEPT !.api_keys = MapInsert(self.api_keys, provider, api_key)]

\* The legacy field is cleared only on the branch that migrates nothing.
migrate_legacy_api_key_clear_in_else(self) ==
    IF IsSome(self.api_key)
        THEN IF Unwrap(self.api_key) # "" /\ self.provider \notin DOMAIN self.api_keys
                THEN [self EXCEPT !.api_keys =
                        MapInsert(self.api_keys, self.provider, Unwrap(self.api_key))]
                ELSE [self EXCEPT !.api_key = None]
        ELSE self

\* A non-empty legacy key is copied over whatever entry the provider has.
migrate_legacy_api_key_overwrite(self) ==
    IF IsSome(self.api_key)
        THEN IF Unwrap(self.api_key) # ""
                THEN [self EXCEPT !.api_keys =
                            MapInsert(self.api_keys, self.provider, Unwrap(self.api_key)),
                                  !.api_key = None]
                ELSE [self EXCEPT !.api_key = None]
        ELSE self

\* The legacy key is dropped without being copied.
migrate_legacy_api_key_drop(self) == [self EXCEPT !.api_key = None]

migrate_legacy_api_key(self) ==
    IF IsSome(self.api_key)
        THEN LET legacy_key == Unwrap(self.api_key)
                 migrated ==
                    IF legacy_key # "" /\ self.provider \notin DOMAIN self.api_keys
                        THEN MapInsert(self.api_keys, self.provider, legacy_key)
                        ELSE self.api_keys
             IN [self EXCEPT !.api_keys = migrated, !.api_key = None]
        ELSE self

----------------------------------------------------------------------------
(* settings.json: absent, not JSON at all, or a JSON object.  An object    *)
(* gives each field of Settings as Some(value), or None when the key is    *)
(* not in the object.                                                      *)

Absent == [kind |-> "absent"]
Corrupt == [kind |-> "corrupt"]
JsonFile(obj) == [kind |-> "json", obj |-> obj]

RequiredFields == {"shortcut", "model", "base_url", "prompt", "provider"}

\* serde_json::to_string_pretty under #[derive(Serialize)]: every field is
\* written, except api_key when it is None (skip_serializing_if).
Serialize(settings) ==
    [shortcut |-> Some(settings.shortcut),
     translate_shortcut |-> Some(settings.translate_shortcut),
     api_keys |-> Some(settings.api_keys),
     api_key |-> settings.api_key,
     model |-> Some(settings.model),
     base_url |-> Some(settings.base_url),
     prompt |-> Some(settings.prompt),
     provider |-> Some(settings.provider),
     sound_enabled |-> Some(settings.sound_enabled),
     notifications_enabled |-> Some(settings.notifications_enabled)]

\* serde_json::from_str under #[derive(Deserialize)]: Err when a field
\* without a default is missing.
ParseOk(obj) == \A f \in RequiredFields : IsSome(obj[f])

OrDefault(o, d) == IF IsSome(o) THEN Unwrap(o) ELSE d

Deserialize(obj) ==
    [shortcut |-> Unwrap(obj.shortcut),
     translate_shortcut |-> OrDefault(obj.translate_shortcut, default_translate_shortcut),
     api_keys |-> OrDefault(obj.api_keys, EmptyMap),
     api_key |-> obj.api_key,
     model |-> Unwrap(obj.model),
     base_url |-> Unwrap(obj.base_url),
     prompt |-> Unwrap(obj.prompt),
     provider |-> Unwrap(obj.provider),
     sound_enabled |-> OrDefault(obj.sound_enabled, default_sound_enabled),
     notifications_enabled |->
        OrDefault(obj.notifications_enabled, default_notifications_enabled)]

\* serde_json::from_str(&content).unwrap_or_default()
from_str_or_default(f) ==
    IF f.kind = "json" /\ ParseOk(f.obj) THEN Deserialize(f.obj) ELSE Default

\* The parsed record is returned as it was read.
load_settings_unmigrated(f) ==
    IF f.kind # "absent" THEN from_str_or_default(f) ELSE Default

load_settings(f) ==
    IF f.kind # "absent"
        THEN migrate_legacy_api_key(from_str_or_default(f))
        ELSE Default

\* The record save_settings serializes without clearing the legacy field.
saved_json_keep_legacy(settings) == Serialize(settings)

\* The record save_settings serializes: the legacy field is cleared first.
saved_json(settings) == Serialize([settings EXCEPT !.api_key = None])

\* fs::write creates or truncates the file and then writes: when it fails
\* the file is as it was or holds a truncated text.
WriteOutcomes == {"ok", "failed", "failed_truncated"}

FileAfterWrite(f, json, outcome) ==
    CASE outcome = "ok" -> JsonFile(json)
      [] outcome = "failed" -> f
      [] outcome = "failed_truncated" -> Corrupt

WriteResult(outcome) ==
    IF outcome = "ok" THEN "Ok" ELSE "Err: Failed to write settings"

----------------------------------------------------------------------------
(* Texts: sequences of characters.  WideChar stands for a character whose  *)
(* UTF-8 encoding takes three bytes.                                       *)

WideChar == "U+4E2D"

Whitespace == {" ", "\n", "\t"}

Utf8Len(c) == IF c = WideChar THEN 3 ELSE 1

Rep(c, n) == [i \in 1..n |-> c]

RECURSIVE TrimStart(_)
TrimStart(t) ==
    IF t = <<>> THEN <<>>
    ELSE IF Head(t) \in Whitespace THEN TrimStart(Tail(t)) ELSE t

RECURSIVE TrimEnd(_)
TrimEnd(t) ==
    IF t = <<>> THEN <<>>
    ELSE IF t[Len(t)] \in Whitespace THEN TrimEnd(SubSeq(t, 1, Len(t) - 1)) ELSE t

\* str::trim
Trim(t) == TrimEnd(TrimStart(t))

\* is_empty() without the trim
is_blank_untrimmed(text) == text = <<>>

\* selected_text.trim().is_empty()
is_blank(text) == Trim(text) = <<>>

\* String::len: the length in bytes
\* The bytes of the first k characters.
BytesOfPrefix(t, k) ==
    k + (Utf8Len(WideChar) - 1) * Cardinality({i \in 1..k : t[i] = WideChar})

ByteLen(t) == BytesOfPrefix(t, Len(t))

\* The number of leading characters that end at byte n, or -1 when byte n
\* is inside a character (str::is_char_boundary is false) or past the end.
CharsUpTo(t, n) ==
    IF \E k \in 0..Len(t) : BytesOfPrefix(t, k) = n
        THEN CHOOSE k \in 0..Len(t) : BytesOfPrefix(t, k) = n
        ELSE -1

PreviewMax == 100
PreviewKeep == 97

Ellipsis == <<".", ".", ".">>

\* The preview of the success notification: the text, or its first
\* PreviewKeep bytes and "...".  &text[..PreviewKeep] panics when that byte
\* is not a character boundary.
preview_of(text) ==
    IF ByteLen(text) > PreviewMax
        THEN IF CharsUpTo(text, PreviewKeep) = -1
                THEN [panic |-> TRUE]
                ELSE [panic |-> FALSE,
                      text |-> SubSeq(text, 1, CharsUpTo(text, PreviewKeep)) \o Ellipsis]
        ELSE [panic |-> FALSE, text |-> text]

----------------------------------------------------------------------------
(* The provider adapters.  A response is a failed send, or a status with a *)
(* body; a body read as JSON is unparsable or has the adapter's list.      *)

Ok(text) == [ok |-> TRUE, text |-> text]
Err(msg, status, body) == [ok |-> FALSE, msg |-> msg, status |-> status, body |-> body]

SendError == [sent |-> FALSE]
Http(status, body) == [sent |-> TRUE, status |-> status, body |-> body]
Unparsable == [parsed |-> FALSE, raw |-> "not json"]
ErrorBody == [parsed |-> FALSE, raw |-> "quota exceeded"]
OpenAIBody(choices) == [parsed |-> TRUE, choices |-> choices]
GeminiBody(candidates) == [parsed |-> TRUE, candidates |-> candidates]

\* StatusCode::is_success
is_success(status) == status >= 200 /\ status < 300

\* The first choice's content is returned as it came, untrimmed.
openai_result_untrimmed(resp) ==
    IF ~resp.sent THEN Err("Request failed", None, None)
    ELSE IF ~is_success(resp.status)
        THEN Err("API request failed with status", Some(resp.status), None)
    ELSE IF ~resp.body.parsed THEN Err("Failed to parse response", None, None)
    ELSE IF resp.body.choices = <<>> THEN Err("No response from API", None, None)
    ELSE Ok(resp.body.choices[1])

\* polish_text_with_openai and translate_text_with_openai after the send
openai_result(resp) ==
    IF ~resp.sent THEN Err("Request failed", None, None)
    ELSE IF ~is_success(resp.status)
        THEN Err("API request failed with status", Some(resp.status), None)
    ELSE IF ~resp.body.parsed THEN Err("Failed to parse response", None, None)
    ELSE IF resp.body.choices = <<>> THEN Err("No response from API", None, None)
    ELSE Ok(Trim(resp.body.choices[1]))

\* polish_text_with_gemini and translate_text_with_gemini after the send
gemini_result(resp) ==
    IF ~resp.sent THEN Err("Request failed", None, None)
    ELSE IF ~is_success(resp.status)
        THEN Err("API request failed with status", Some(resp.status), Some(resp.body))
    ELSE IF ~resp.body.parsed THEN Err("Failed to parse response", None, None)
    ELSE IF resp.body.candidates = <<>> \/ resp.body.candidates[1] = <<>>
        THEN Err("No response from API", None, None)
    ELSE Ok(Trim(resp.body.candidates[1][1]))

\* The adapter is picked by the model's name.
adapter_of_by_model(settings) ==
    IF settings.provider = "gemini" \/ settings.model = "gemini-pro"
        THEN "gemini" ELSE "openai"

\* The match on settings.provider of polish_text_with_llm and
\* translate_text_with_llm.
adapter_of(settings) == IF settings.provider = "gemini" THEN "gemini" ELSE "openai"

TranslatePrompt == "Translate the following text to English. If the text is already in English, keep it as is. Only return the translated text without any additional explanation:"

instruction_of(kind, settings) ==
    IF kind = "polish" THEN settings.prompt ELSE TranslatePrompt

\* What the adapter sends.
request_of(kind, text, settings) ==
    [adapter |-> adapter_of(settings),
     api_key |-> get_current_api_key(settings),
     base_url |-> settings.base_url,
     model |-> settings.model,
     instruction |-> instruction_of(kind, settings),
     text |-> text]

llm_result(adapter, resp) ==
    IF adapter = "gemini" THEN gemini_result(resp) ELSE openai_result(resp)

----------------------------------------------------------------------------
(* The hotkey tasks: each trigger of a shortcut spawns one run.            *)

MaxRuns == 1

Kinds == {"polish", "translate"}

TooltipIdle == "Polish Language"
TooltipProcessing == "Polish Language - Processing..."

\* update_tray_icon_processing
tooltip_for(processing) == IF processing THEN TooltipProcessing ELSE TooltipIdle

ClipboardBefore == <<"o", "l", "d">>

\* A task as it is spawned.
NewRun(kind) ==
    [pc |-> "spawned", kind |-> kind, capture |-> "none", text |-> <<>>,
     settings |-> None, request |-> None, result |-> None,
     notification |-> None, log |-> <<>>]

RunIds == DOMAIN runs

Ended == {"done", "panicked"}

Count(log, e) == Cardinality({i \in DOMAIN log : log[i] = e})

\* get_selected_text()
CapturedTexts == {<<>>, <<" ">>, <<"\n", " ">>, <<" ", "a", " ">>}

CaptureOutcomes == {[ok |-> FALSE]} \cup {[ok |-> TRUE, text |-> x] : x \in CapturedTexts}

SuccessTitle(kind) == IF kind = "polish" THEN "Text Polished" ELSE "Text Translated"
FailureTitle(kind) == IF kind = "polish" THEN "Polish Failed" ELSE "Translation Failed"

\* A failed capture is taken for an empty selection.
TriggerSilentCaptureError(kind, outcome) ==
    /\ runs' = Append(runs,
            IF ~outcome.ok
                THEN [NewRun(kind) EXCEPT !.capture = "err", !.pc = "done"]
            ELSE IF is_blank(outcome.text)
                THEN [NewRun(kind) EXCEPT !.capture = "ok",
                            !.text = outcome.text, !.pc = "done"]
            ELSE [NewRun(kind) EXCEPT !.capture = "ok",
                            !.text = outcome.text, !.pc = "captured"])
    /\ UNCHANGED <<file, s, op, tooltip, clipboard>>

\* A trigger is dropped while the tray shows the processing state.
TriggerRejectedWhileBusy(kind, outcome) ==
    /\ tooltip = TooltipIdle
    /\ runs' = Append(runs,
            IF ~outcome.ok
                THEN [NewRun(kind) EXCEPT !.capture = "err", !.pc = "done",
                            !.log = <<"diag: Error getting selected text">>]
            ELSE IF is_blank(outcome.text)
                THEN [NewRun(kind) EXCEPT !.capture = "ok",
                            !.text = outcome.text, !.pc = "done"]
            ELSE [NewRun(kind) EXCEPT !.capture = "ok",
                            !.text = outcome.text, !.pc = "captured"])
    /\ UNCHANGED <<file, s, op, tooltip, clipboard>>

\* The shortcut fires: the task is spawned, reads the selection and stops
\* when there is none to work on.
Trigger(kind, outcome) ==
    /\ runs' = Append(runs,
            IF ~outcome.ok
                THEN [NewRun(kind) EXCEPT !.capture = "err", !.pc = "done",
                            !.log = <<"diag: Error getting selected text">>]
            ELSE IF is_blank(outcome.text)
                THEN [NewRun(kind) EXCEPT !.capture = "ok",
                            !.text = outcome.text, !.pc = "done"]
            ELSE [NewRun(kind) EXCEPT !.capture = "ok",
                            !.text = outcome.text, !.pc = "captured"])
    /\ UNCHANGED <<file, s, op, tooltip, clipboard>>

\* The request is sent whatever the key is.
StartNoKeyCheck(r) ==
    LET settings == load_settings(file)
    IN /\ runs[r].pc = "captured"
       /\ tooltip' = tooltip_for(TRUE)
       /\ runs' = [runs EXCEPT ![r] =
                    [@ EXCEPT !.settings = Some(settings), !.pc = "awaiting",
                              !.request = Some(request_of(runs[r].kind, runs[r].text, settings)),
                              !.log = @ \o <<"busy", "network">>]]
       /\ UNCHANGED <<file, s, op, clipboard>>

\* The run loads the settings, stops when they hold no key for the
\* provider, and otherwise shows the processing state and sends the request.
Start(r) ==
    LET settings == load_settings(file)
    IN /\ runs[r].pc = "captured"
       /\ IF get_current_api_key(settings) = ""
            THEN /\ runs' = [runs EXCEPT ![r] =
                        [@ EXCEPT !.settings = Some(settings), !.pc = "done",
                                  !.log = @ \o <<"diag: API key not configured">>]]
                 /\ UNCHANGED tooltip
            ELSE /\ tooltip' = tooltip_for(TRUE)
                 /\ runs' = [runs EXCEPT ![r] =
                        [@ EXCEPT !.settings = Some(settings), !.pc = "awaiting",
                                  !.request = Some(request_of(runs[r].kind, runs[r].text, settings)),
                                  !.log = @ \o <<"busy", "network">>]]
       /\ UNCHANGED <<file, s, op, clipboard>>

\* The log of the Ok arm up to the preview.
OkLog(settings, clip_ok) ==
    <<"clipboard">>
        \o (IF clip_ok THEN <<>> ELSE <<"diag: Failed to write to clipboard">>)
        \o (IF settings.sound_enabled THEN <<"sound">> ELSE <<>>)

\* show_notification
NotifyLog(settings) == IF settings.notifications_enabled THEN <<"notify">> ELSE <<>>
Notified(settings, title, body) ==
    IF settings.notifications_enabled
        THEN Some([title |-> title, body |-> body])
        ELSE None

\* The Err arm writes to the clipboard and plays the sound like the Ok arm.
CompleteErrLikeOk(r, resp, clip_ok) ==
    LET run == runs[r]
        settings == Unwrap(run.settings)
        result == llm_result(Unwrap(run.request).adapter, resp)
    IN /\ run.pc = "awaiting"
       /\ IF result.ok
            THEN LET preview == preview_of(result.text)
                 IN /\ clipboard' = IF clip_ok THEN result.text ELSE clipboard
                    /\ runs' = [runs EXCEPT ![r] =
                        IF preview.panic
                            THEN [@ EXCEPT !.result = Some(result), !.pc = "panicked",
                                           !.log = @ \o OkLog(settings, clip_ok)]
                            ELSE [@ EXCEPT !.result = Some(result), !.pc = "resetting",
                                           !.log = @ \o OkLog(settings, clip_ok)
                                                     \o NotifyLog(settings),
                                           !.notification =
                                                Notified(settings, SuccessTitle(run.kind),
                                                         preview.text)]]
            ELSE /\ clipboard' = IF clip_ok THEN <<>> ELSE clipboard
                 /\ runs' = [runs EXCEPT ![r] =
                        [@ EXCEPT !.result = Some(result), !.pc = "resetting",
                                  !.log = @ \o OkLog(settings, clip_ok)
                                            \o <<"diag: Failed">> \o NotifyLog(settings),
                                  !.notification =
                                        Notified(settings, FailureTitle(run.kind),
                                                 result.msg)]]
       /\ UNCHANGED <<file, s, op, tooltip>>

\* The settings are loaded again when the provider call returns.
CompleteReloadsSettings(r, resp, clip_ok) ==
    LET run == runs[r]
        settings == load_settings(file)
        result == llm_result(Unwrap(run.request).adapter, resp)
    IN /\ run.pc = "awaiting"
       /\ IF result.ok
            THEN LET preview == preview_of(result.text)
                 IN /\ clipboard' = IF clip_ok THEN result.text ELSE clipboard
                    /\ runs' = [runs EXCEPT ![r] =
                        IF preview.panic
                            THEN [@ EXCEPT !.result = Some(result), !.pc = "panicked",
                                           !.log = @ \o OkLog(settings, clip_ok)]
                            ELSE [@ EXCEPT !.result = Some(result), !.pc = "resetting",
                                           !.log = @ \o OkLog(settings, clip_ok)
                                                     \o NotifyLog(settings),
                                           !.notification =
                                                Notified(settings, SuccessTitle(run.kind),
                                                         preview.text)]]
            ELSE /\ UNCHANGED clipboard
                 /\ runs' = [runs EXCEPT ![r] =
                        [@ EXCEPT !.result = Some(result), !.pc = "resetting",
                                  !.log = @ \o <<"diag: Failed">> \o NotifyLog(settings),
                                  !.notification =
                                        Notified(settings, FailureTitle(run.kind),
                                                 result.msg)]]
       /\ UNCHANGED <<file, s, op, tooltip>>

\* The provider call returns and the run applies the Ok arm or the Err arm.
Complete(r, resp, clip_ok) ==
    LET run == runs[r]
        settings == Unwrap(run.settings)
        result == llm_result(Unwrap(run.request).adapter, resp)
    IN /\ run.pc = "awaiting"
       /\ IF result.ok
            THEN LET preview == preview_of(result.text)
                 IN /\ clipboard' = IF clip_ok THEN result.text ELSE clipboard
                    /\ runs' = [runs EXCEPT ![r] =
                        IF preview.panic
                            THEN [@ EXCEPT !.result = Some(result), !.pc = "panicked",
                                           !.log = @ \o OkLog(settings, clip_ok)]
                            ELSE [@ EXCEPT !.result = Some(result), !.pc = "resetting",
                                           !.log = @ \o OkLog(settings, clip_ok)
                                                     \o NotifyLog(settings),
                                           !.notification =
                                                Notified(settings, SuccessTitle(run.kind),
                                                         preview.text)]]
            ELSE /\ UNCHANGED clipboard
                 /\ runs' = [runs EXCEPT ![r] =
                        [@ EXCEPT !.result = Some(result), !.pc = "resetting",
                                  !.log = @ \o <<"diag: Failed">> \o NotifyLog(settings),
                                  !.notification =
                                        Notified(settings, FailureTitle(run.kind),
                                                 result.msg)]]
       /\ UNCHANGED <<file, s, op, tooltip>>

\* The processing state is reset.
Reset(r) ==
    /\ runs[r].pc = "resetting"
    /\ tooltip' = tooltip_for(FALSE)
    /\ runs' = [runs EXCEPT ![r] = [@ EXCEPT !.pc = "done", !.log = @ \o <<"idle">>]]
    /\ UNCHANGED <<file, s, op, clipboard>>

----------------------------------------------------------------------------
(* The settings calls *)

NoOp == [name |-> "none"]

\* What the persisted record says about the legacy key (for the history
\* kept in op).
IsRecord(f) == f.kind = "json" /\ ParseOk(f.obj)
HasEntry(f) ==
    /\ IsRecord(f)
    /\ Unwrap(f.obj.provider) \in DOMAIN OrDefault(f.obj.api_keys, EmptyMap)
\* The record holds a legacy key that migration will copy.
PendingLegacy(f) ==
    /\ IsRecord(f)
    /\ IsSome(f.obj.api_key) /\ Unwrap(f.obj.api_key) # ""
    /\ ~HasEntry(f)

PipelineIdle ==
    /\ runs = <<>>
    /\ tooltip = TooltipIdle
    /\ clipboard = ClipboardBefore

\* The migrated value is written back to the file on load.
LoadSettingsWritesBack ==
    /\ s' = load_settings(file)
    /\ op' = [name |-> "load_settings"]
    /\ file' = IF file.kind = "absent" THEN file
                ELSE JsonFile(saved_json(load_settings(file)))
    /\ UNCHANGED <<runs, tooltip, clipboard>>

LoadSettings ==
    /\ s' = load_settings(file)
    /\ op' = [name |-> "load_settings"]
    /\ UNCHANGED <<file, runs, tooltip, clipboard>>

SaveSettings(settings, outcome) ==
    /\ file' = FileAfterWrite(file, saved_json(settings), outcome)
    /\ s' = [settings EXCEPT !.api_key = None]
    /\ op' = [name |-> "save_settings", arg_api_key |-> settings.api_key,
              write |-> outcome, ret |-> WriteResult(outcome),
              in_flight |-> {r \in RunIds : runs[r].pc = "awaiting"},
              migrates |-> (/\ op.name = "load_settings" /\ settings = s
                            /\ PendingLegacy(file))]
    /\ UNCHANGED <<runs, tooltip, clipboard>>

SaveApiKeyForProvider(provider, api_key, outcome) ==
    LET settings == set_api_key(load_settings(file), provider, api_key)
    IN /\ file' = FileAfterWrite(file, saved_json(settings), outcome)
       /\ s' = [settings EXCEPT !.api_key = None]
       /\ op' = [name |-> "save_api_key_for_provider", provider |-> provider,
                 api_key |-> api_key, write |-> outcome,
                 ret |-> WriteResult(outcome)]
       /\ UNCHANGED <<runs, tooltip, clipboard>>

\* The two Settings methods applied to the value in memory.
SetApiKey(provider, api_key) ==
    /\ s' = set_api_key(s, provider, api_key)
    /\ op' = [name |-> "set_api_key", provider |-> provider,
              api_key |-> api_key, before |-> s]
    /\ UNCHANGED <<file, runs, tooltip, clipboard>>

MigrateLegacyApiKey ==
    /\ s' = migrate_legacy_api_key(s)
    /\ op' = [name |-> "migrate_legacy_api_key", before |-> s,
              prev |-> op.name,
              input |-> IF op.name = "migrate_legacy_api_key" THEN op.input ELSE s]
    /\ UNCHANGED <<file, runs, tooltip, clipboard>>

----------------------------------------------------------------------------
(* SpecPure: the Settings methods on every Settings value. *)

InitPure ==
    /\ file = Absent
    /\ s \in AllSettings
    /\ op = NoOp
    /\ PipelineIdle

NextPure ==
    \/ MigrateLegacyApiKey
    \/ \E p \in ProviderIds, k \in Keys : SetApiKey(p, k)

SpecPure == InitPure /\ [][NextPure]_vars

----------------------------------------------------------------------------
(* C2 (SpecPure): migration is idempotent: a second application of         *)
(* migrate_legacy_api_key right after a first one changes no field of the  *)
(* settings.                                                               *)
C2_MigrationIdempotent ==
    (op.name = "migrate_legacy_api_key" /\ op.prev = "migrate_legacy_api_key")
        => s = op.before

C2_Witness ==
    /\ op.name = "migrate_legacy_api_key"
    /\ op.prev = "migrate_legacy_api_key"
    /\ op.input.api_key = Some("sk-A")
    /\ op.input.provider \notin DOMAIN op.input.api_keys
    /\ get_current_api_key(s) = "sk-A"
    /\ s.api_key = None

(* C3 (SpecPure): set_api_key(s, p, "") leaves s with no entry for p, and  *)
(* after set_api_key(s, p, x) with x non-empty, get_current_api_key of s   *)
(* with provider = p is x.                                                 *)
C3_SetThenGet ==
    op.name = "set_api_key" =>
        /\ op.api_key = "" => op.provider \notin DOMAIN s.api_keys
        /\ (op.api_key # "" /\ s.provider = op.provider)
                => get_current_api_key(s) = op.api_key

C3_Witness ==
    /\ op.name = "set_api_key"
    /\ op.api_key = ""
    /\ op.provider \in DOMAIN op.before.api_keys
    /\ op.provider = s.provider
    /\ get_current_api_key(s) = ""

(* C21 (SpecPure): when api_keys has an entry for the current provider,    *)
(* migrate_legacy_api_key leaves api_keys as it was, that entry and every  *)
(* other one, whatever the legacy value is, and clears the legacy field;   *)
(* an empty legacy value adds no entry either and is cleared too.          *)
C21_MigrationKeepsExistingKey ==
    op.name = "migrate_legacy_api_key" =>
        /\ op.before.provider \in DOMAIN op.before.api_keys =>
                /\ s.api_keys = op.before.api_keys
                /\ s.api_key = None
        /\ op.before.api_key = Some("") =>
                /\ s.api_keys = op.before.api_keys
                /\ s.api_key = None
        /\ \A f \in DOMAIN s \ {"api_keys", "api_key"} : s[f] = op.before[f]

C21_Witness ==
    /\ op.name = "migrate_legacy_api_key"
    /\ op.before.api_key = Some("sk-A")
    /\ op.before.provider = "openai"
    /\ "openai" \in DOMAIN op.before.api_keys
    /\ op.before.api_keys["openai"] = "sk-B"
    /\ "gemini" \in DOMAIN op.before.api_keys
    /\ s.api_keys = op.before.api_keys
    /\ s.api_key = None

----------------------------------------------------------------------------
(* SpecStore: the settings calls over a settings.json left by any earlier  *)
(* version of the program.  SpecFresh: the same calls on a first run, with *)
(* no settings.json.                                                       *)

\* The Settings values the settings window passes to save_settings.
UiKeys == {"", "sk-B"}

StoreInputs ==
    {x \in AllSettings :
        /\ x.model = Default.model /\ x.sound_enabled /\ ~x.notifications_enabled
        /\ x.provider \in KeyedProviders
        /\ \A p \in DOMAIN x.api_keys : x.api_keys[p] \in UiKeys
        /\ x.api_key \in {None, Some("sk-A")}}

LegacyObj(m, k, p) ==
    [Serialize(Default) EXCEPT !.api_keys = m, !.api_key = k,
                               !.provider = Some(p),
                               !.translate_shortcut = None,
                               !.sound_enabled = None,
                               !.notifications_enabled = None]

LegacyObjs ==
    {LegacyObj(m, k, p) :
        m \in {None} \cup {Some(x) : x \in KeyMaps},
        k \in {None} \cup {Some(x) : x \in Keys},
        p \in ProviderIds}

\* Objects that lack a field serde requires.
BrokenObjs ==
    {[o EXCEPT !.model = None] :
        o \in {LegacyObj(None, k, "gemini") : k \in {None, Some("sk-A")}}}

InitFiles == {Absent, Corrupt} \cup {JsonFile(o) : o \in LegacyObjs \cup BrokenObjs}

InitStore ==
    /\ file \in InitFiles
    /\ s = load_settings(file)
    /\ op = NoOp
    /\ PipelineIdle

InitFresh ==
    /\ file = Absent
    /\ s = load_settings(file)
    /\ op = NoOp
    /\ PipelineIdle

NextStore ==
    \/ LoadSettings
    \/ \E settings \in StoreInputs, outcome \in WriteOutcomes :
            SaveSettings(settings, outcome)
    \/ \E settings \in {s}, outcome \in WriteOutcomes :
            SaveSettings(settings, outcome)
    \/ \E p \in ProviderIds, k \in Keys, outcome \in WriteOutcomes :
            SaveApiKeyForProvider(p, k, outcome)

SpecStore == InitStore /\ [][NextStore]_vars

SpecFresh == InitFresh /\ [][NextStore]_vars

(* C1 (SpecStore): when the persisted record has a non-empty legacy        *)
(* api_key and no api_keys entry for its provider, load_settings followed  *)
(* by a successful save_settings of the loaded value leaves a record whose *)
(* api_keys[provider] is the former legacy key and which has no api_key    *)
(* field.                                                                  *)
C1_LoadThenSaveMigrates ==
    [][(/\ op.name = "load_settings"
        /\ op'.name = "save_settings" /\ op'.ret = "Ok"
        /\ s' = s
        /\ IsRecord(file)
        /\ IsSome(file.obj.api_key) /\ Unwrap(file.obj.api_key) # ""
        /\ ~HasEntry(file))
       => (/\ file'.kind = "json"
           /\ Unwrap(file.obj.provider) \in DOMAIN Unwrap(file'.obj.api_keys)
           /\ Unwrap(file'.obj.api_keys)[Unwrap(file.obj.provider)]
                    = Unwrap(file.obj.api_key)
           /\ file'.obj.api_key = None)]_vars

C1_Witness ==
    /\ op.name = "save_settings" /\ op.migrates /\ op.ret = "Ok"
    /\ file.kind = "json"
    /\ Unwrap(file.obj.provider) = "gemini"
    /\ Unwrap(file.obj.api_keys)["gemini"] = "sk-B"
    /\ file.obj.api_key = None

(* C4 (SpecFresh): starting from the defaults, after any sequence of       *)
(* settings calls no api_keys map, in memory or persisted, holds an empty  *)
(* string as a value.                                                      *)
NoEmptyValue(m) == \A p \in DOMAIN m : m[p] # ""

C4_NoEmptyKeyStored ==
    /\ NoEmptyValue(s.api_keys)
    /\ IsRecord(file) => NoEmptyValue(OrDefault(file.obj.api_keys, EmptyMap))

(* C5 (SpecStore): load_settings always returns a Settings value whose     *)
(* legacy api_key is absent and which migration leaves as it is; when      *)
(* settings.json is absent or cannot be parsed the value is the defaults.  *)
C5_LoadNeverFails ==
    op.name = "load_settings" =>
        /\ s.api_key = None
        /\ migrate_legacy_api_key(s) = s
        /\ ~IsRecord(file) => s = Default
        /\ (IsRecord(file) /\ IsSome(file.obj.api_key)
                /\ Unwrap(file.obj.api_key) # "" /\ ~HasEntry(file))
              => get_current_api_key(s) = Unwrap(file.obj.api_key)

C5_Witness ==
    /\ op.name = "load_settings"
    /\ file.kind = "json" /\ ~ParseOk(file.obj)
    /\ file.obj.api_key = Some("sk-A")
    /\ s = Default

(* C6 (SpecStore): a successful save_settings persists its argument with   *)
(* the legacy api_key field left out, whatever the argument's api_key was; *)
(* no successful save leaves an api_key field in the record; when the      *)
(* write fails the call returns an error and not Ok.                       *)
C6_SaveClearsLegacy ==
    /\ op.name = "save_settings" =>
        /\ op.write = "ok" =>
            /\ op.ret = "Ok"
            /\ s.api_key = None
            /\ file = JsonFile(Serialize(s))
        /\ op.write # "ok" => op.ret # "Ok"
    /\ (op.name \in {"save_settings", "save_api_key_for_provider"}
            /\ op.write = "ok")
          => (file.kind = "json" /\ file.obj.api_key = None)

C6_Witness ==
    /\ op.name = "save_settings"
    /\ op.arg_api_key = Some("sk-A")
    /\ op.ret = "Ok"
    /\ file.kind = "json" /\ file.obj.api_key = None
    /\ Unwrap(file.obj.api_keys) = s.api_keys

----------------------------------------------------------------------------
(* Spec: the hotkey runs, next to the settings window saving settings.     *)

\* A settings.json of an earlier version: one legacy key, notifications on.
LegacyOpenAI ==
    JsonFile([LegacyObj(None, Some("sk-A"), "openai")
                EXCEPT !.notifications_enabled = Some(TRUE)])

\* A settings.json whose key for the provider is the empty string, with
\* notifications on.
EmptyKeyFile ==
    JsonFile([LegacyObj(Some([p \in {"openai"} |-> ""]), None, "openai")
                EXCEPT !.notifications_enabled = Some(TRUE)])

PipelineFiles == {Absent, LegacyOpenAI, EmptyKeyFile}

GeminiCfg ==
    [Default EXCEPT !.provider = "gemini",
                    !.api_keys = [p \in {"gemini"} |-> "sk-B"],
                    !.model = "gemini-pro",
                    !.sound_enabled = FALSE]

PipelineInputs == {GeminiCfg}

ShortReply == <<" ", "H", "i", " ">>

\* 34 characters, 102 bytes: byte PreviewKeep is inside a character.
WideReply == Rep(WideChar, 34)

Replies == {ShortReply, WideReply}

Responses(adapter) ==
    {SendError, Http(500, ErrorBody), Http(200, Unparsable)}
        \cup (IF adapter = "gemini"
                THEN {Http(200, GeminiBody(<<>>))}
                        \cup {Http(200, GeminiBody(<<<<x>>>>)) : x \in Replies}
                ELSE {Http(200, OpenAIBody(<<>>))}
                        \cup {Http(200, OpenAIBody(<<x>>)) : x \in Replies})

Init ==
    /\ file \in PipelineFiles
    /\ s = load_settings(file)
    /\ op = NoOp
    /\ PipelineIdle

Next ==
    \/ \E kind \in Kinds, outcome \in CaptureOutcomes :
            Len(runs) < MaxRuns /\ Trigger(kind, outcome)
    \/ \E r \in RunIds : Start(r)
    \/ \E r \in RunIds :
            /\ runs[r].pc = "awaiting"
            /\ \E resp \in Responses(Unwrap(runs[r].request).adapter),
                  clip_ok \in BOOLEAN : Complete(r, resp, clip_ok)
    \/ \E r \in RunIds : Reset(r)
    \/ \E settings \in PipelineInputs, outcome \in WriteOutcomes :
            SaveSettings(settings, outcome)

Spec == Init /\ [][Next]_vars

(* C7 (Spec): a run whose captured text is empty or only whitespace ends   *)
(* without a network call, a clipboard write, a notification, a sound or a *)
(* diagnostic: it has no effect at all.                                    *)
Blank(text) == \A i \in DOMAIN text : text[i] \in Whitespace

C7_BlankTextNoEffects ==
    \A r \in RunIds :
        (runs[r].capture = "ok" /\ Blank(runs[r].text)) =>
            /\ runs[r].pc = "done"
            /\ runs[r].log = <<>>
            /\ runs[r].notification = None
            /\ runs[r].request = None

C7_Witness ==
    \E r \in RunIds :
        /\ runs[r].capture = "ok" /\ runs[r].text = <<"\n", " ">>
        /\ runs[r].pc = "done" /\ runs[r].log = <<>>

(* C8 (Spec): a run whose loaded settings hold no key, or an empty one,    *)
(* for the active provider makes no network call and no clipboard write,   *)
(* and reports the missing key.                                            *)
KeyMissing(settings) ==
    \/ settings.provider \notin DOMAIN settings.api_keys
    \/ settings.api_keys[settings.provider] = ""

C8_MissingKeyAborts ==
    \A r \in RunIds :
        (IsSome(runs[r].settings) /\ KeyMissing(Unwrap(runs[r].settings))) =>
            /\ runs[r].pc = "done"
            /\ runs[r].log = <<"diag: API key not configured">>
            /\ runs[r].request = None

C8_Witness ==
    \E r \in RunIds :
        /\ IsSome(runs[r].settings)
        /\ Unwrap(runs[r].settings).api_keys = [p \in {"openai"} |-> ""]
        /\ Unwrap(runs[r].settings).provider = "openai"
        /\ runs[r].pc = "done"
        /\ runs[r].log = <<"diag: API key not configured">>

(* C9 (Spec): a run whose text capture fails reports the failure and does  *)
(* nothing else: it loads no settings, never shows the processing state,   *)
(* and makes no network call, clipboard write, sound or notification.      *)
C9_CaptureFailureAborts ==
    \A r \in RunIds :
        runs[r].capture = "err" =>
            /\ runs[r].pc = "done"
            /\ runs[r].log = <<"diag: Error getting selected text">>
            /\ runs[r].settings = None
            /\ runs[r].request = None
            /\ runs[r].notification = None

C9_Witness ==
    \E r \in RunIds :
        /\ runs[r].capture = "err" /\ runs[r].kind = "translate"
        /\ runs[r].pc = "done"
        /\ runs[r].log = <<"diag: Error getting selected text">>

(* C10 (Spec): every run that has shown the processing state and has ended *)
(* has reset it, whatever the provider returned.                           *)
C10_BusyAlwaysReset ==
    \A r \in RunIds :
        (runs[r].pc \in Ended /\ Count(runs[r].log, "busy") > 0)
            => Count(runs[r].log, "idle") > 0

Failed(r) == IsSome(runs[r].result) /\ ~Unwrap(runs[r].result).ok
Succeeded(r) == IsSome(runs[r].result) /\ Unwrap(runs[r].result).ok

(* C12 (Spec): a run whose provider call failed (no reply, a status        *)
(* outside 2xx, an unparsable or an empty reply) has written nothing to    *)
(* the clipboard and played no sound, and as long as no run has succeeded  *)
(* the clipboard holds what it held before.                                *)
C12_FailureLeavesClipboard ==
    /\ \A r \in RunIds :
            Failed(r) => /\ Count(runs[r].log, "clipboard") = 0
                         /\ Count(runs[r].log, "sound") = 0
    /\ (\A r \in RunIds : ~Succeeded(r)) => clipboard = ClipboardBefore

C12_Witness ==
    \E r \in RunIds :
        /\ Failed(r) /\ Unwrap(runs[r].result).status = Some(500)
        /\ Unwrap(runs[r].settings).sound_enabled
        /\ runs[r].pc = "done"
        /\ Count(runs[r].log, "sound") = 0
        /\ clipboard = ClipboardBefore

(* C13 (Spec): every error of a run (the capture failed, no key for the    *)
(* provider, the provider call failed) leaves a diagnostic, and also a     *)
(* notification when the loaded settings have notifications on; the run    *)
(* does not panic on it.                                                   *)
C13_ErrorsReported ==
    \A r \in RunIds :
        /\ runs[r].capture = "err" =>
                /\ Count(runs[r].log, "diag: Error getting selected text") = 1
                /\ runs[r].pc # "panicked"
        /\ (IsSome(runs[r].settings) /\ KeyMissing(Unwrap(runs[r].settings))) =>
                /\ Count(runs[r].log, "diag: API key not configured") = 1
                /\ Unwrap(runs[r].settings).notifications_enabled
                        => IsSome(runs[r].notification)
                /\ runs[r].pc # "panicked"
        /\ Failed(r) =>
                /\ Count(runs[r].log, "diag: Failed") = 1
                /\ Unwrap(runs[r].settings).notifications_enabled
                        => IsSome(runs[r].notification)
                /\ runs[r].pc # "panicked"

(* C15 (Spec): a run whose provider call succeeded has written the         *)
(* returned text to the clipboard, and whether or not that write failed    *)
(* it has played the sound when sound is on, shown the success             *)
(* notification when notifications are on, and, once ended, has reset the  *)
(* processing state.                                                       *)
C15_ClipboardFailureOnlyLogged ==
    \A r \in RunIds :
        Succeeded(r) =>
            /\ Count(runs[r].log, "clipboard") = 1
            /\ Unwrap(runs[r].settings).sound_enabled
                    => Count(runs[r].log, "sound") = 1
            /\ Unwrap(runs[r].settings).notifications_enabled
                    => /\ IsSome(runs[r].notification)
                       /\ Unwrap(runs[r].notification).title = SuccessTitle(runs[r].kind)
            /\ runs[r].pc \in Ended => Count(runs[r].log, "idle") = 1

(* C19 (Spec): the adapter and the key of a run's request, and whether it  *)
(* plays the sound and shows a notification, are those of the settings the *)
(* run loaded before the request, also when settings are saved during the  *)
(* provider call; the save does not keep the reply from being handled. (A  *)
(* run that panics on the preview ends before its notification: C10.)      *)
C19_SnapshotDecides ==
    \A r \in RunIds :
        IsSome(runs[r].request) =>
            LET snapshot == Unwrap(runs[r].settings)
                request == Unwrap(runs[r].request)
            IN /\ request.adapter = IF snapshot.provider = "gemini"
                                        THEN "gemini" ELSE "openai"
               /\ request.api_key = get_current_api_key(snapshot)
               /\ IsSome(runs[r].result) =>
                    /\ Count(runs[r].log, "sound") = 1
                            <=> (Succeeded(r) /\ snapshot.sound_enabled)
                    /\ runs[r].pc # "panicked" =>
                            (IsSome(runs[r].notification)
                                <=> snapshot.notifications_enabled)
               /\ runs[r].pc = "awaiting" =>
                    ENABLED (\E resp \in Responses(request.adapter),
                                clip_ok \in BOOLEAN : Complete(r, resp, clip_ok))

C19_Witness ==
    \E r \in RunIds :
        /\ op.name = "save_settings" /\ op.write = "ok" /\ r \in op.in_flight
        /\ load_settings(file).provider = "gemini"
        /\ ~load_settings(file).sound_enabled
        /\ Unwrap(runs[r].settings).provider = "openai"
        /\ Unwrap(runs[r].request).adapter = "openai"
        /\ Succeeded(r) /\ runs[r].pc = "done"
        /\ Count(runs[r].log, "sound") = 1
        /\ IsSome(runs[r].notification)

(* C22 (Spec): once every run that was started has ended, the tray shows   *)
(* the idle state: it is not left on "Processing" after the last run.      *)
C22_IdleAfterLastRun ==
    (runs # <<>> /\ \A r \in RunIds : runs[r].pc \in Ended)
        => tooltip = TooltipIdle

----------------------------------------------------------------------------
(* SpecAdapter: polish_text_with_llm and translate_text_with_llm on every  *)
(* settings value, against every response of the provider.                 *)

OtherReply == <<"N", "o", "\n">>

AdapterSettings == {x \in AllSettings : x.api_key = None /\ x.sound_enabled}

AdapterTexts == {<<"a">>}

AdapterResponses(adapter) ==
    {SendError, Http(401, ErrorBody), Http(500, ErrorBody), Http(200, Unparsable)}
        \cup (IF adapter = "gemini"
                THEN {Http(200, GeminiBody(c)) :
                        c \in {<<>>, <<<<>>>>, <<<<>>, <<OtherReply>>>>,
                               <<<<ShortReply>>>>, <<<<OtherReply>>>>,
                               <<<<ShortReply, OtherReply>>, <<OtherReply>>>>}}
                ELSE {Http(200, OpenAIBody(c)) :
                        c \in {<<>>, <<ShortReply>>, <<OtherReply>>,
                               <<ShortReply, OtherReply>>}})

PolishTextWithLlm(text, resp) ==
    /\ op' = [name |-> "polish_text_with_llm",
              request |-> request_of("polish", text, s), resp |-> resp,
              result |-> llm_result(adapter_of(s), resp)]
    /\ UNCHANGED <<file, s, runs, tooltip, clipboard>>

TranslateTextWithLlm(text, resp) ==
    /\ op' = [name |-> "translate_text_with_llm",
              request |-> request_of("translate", text, s), resp |-> resp,
              result |-> llm_result(adapter_of(s), resp)]
    /\ UNCHANGED <<file, s, runs, tooltip, clipboard>>

InitAdapter ==
    /\ file = Absent
    /\ s \in AdapterSettings
    /\ op = NoOp
    /\ PipelineIdle

NextAdapter ==
    \/ \E text \in AdapterTexts, resp \in AdapterResponses(adapter_of(s)) :
            PolishTextWithLlm(text, resp)
    \/ \E text \in AdapterTexts, resp \in AdapterResponses(adapter_of(s)) :
            TranslateTextWithLlm(text, resp)

SpecAdapter == InitAdapter /\ [][NextAdapter]_vars

LlmCall == op.name \in {"polish_text_with_llm", "translate_text_with_llm"}

(* C14 (SpecAdapter): a response with a status outside 2xx makes the call  *)
(* fail with an error that carries the status and the response body,       *)
(* whichever adapter was used.                                             *)
C14_ApiErrorCarriesStatusAndBody ==
    (LlmCall /\ op.resp.sent /\ (op.resp.status < 200 \/ op.resp.status > 299)) =>
        /\ ~op.result.ok
        /\ op.result.status = Some(op.resp.status)
        /\ op.result.body = Some(op.resp.body)

(* C17 (SpecAdapter): for both kinds the adapter is the Gemini one when    *)
(* settings.provider is "gemini" and the OpenAI one for every other        *)
(* provider id, whatever the other settings fields are.                    *)
C17_AdapterByProviderOnly ==
    LlmCall =>
        /\ s.provider = "gemini" => op.request.adapter = "gemini"
        /\ s.provider # "gemini" => op.request.adapter = "openai"

C17_Witness ==
    /\ op.name = "translate_text_with_llm"
    /\ s.provider = "custom" /\ s.model = "gemini-pro"
    /\ op.request.adapter = "openai"
    /\ op.result.ok

(* C18 (SpecAdapter): on a 2xx response that parses, the call returns the  *)
(* first item's text with the surrounding whitespace removed and ignores   *)
(* the later items; with no choice, no candidate, or a first candidate     *)
(* without parts it fails with "No response from API".                     *)
IsTrimOf(t, raw) ==
    \E i \in 0..Len(raw) : \E j \in i..Len(raw) :
        /\ t = SubSeq(raw, i + 1, j)
        /\ \A k \in 1..i : raw[k] \in Whitespace
        /\ \A k \in (j + 1)..Len(raw) : raw[k] \in Whitespace
        /\ t # <<>> => (t[1] \notin Whitespace /\ t[Len(t)] \notin Whitespace)

FirstText(request, body) ==
    IF request.adapter = "gemini"
        THEN IF body.candidates = <<>> \/ body.candidates[1] = <<>>
                THEN None ELSE Some(body.candidates[1][1])
        ELSE IF body.choices = <<>> THEN None ELSE Some(body.choices[1])

C18_FirstItemTrimmed ==
    (LlmCall /\ op.resp.sent /\ op.resp.status = 200 /\ op.resp.body.parsed) =>
        LET first == FirstText(op.request, op.resp.body)
        IN IF IsSome(first)
            THEN op.result.ok /\ IsTrimOf(op.result.text, Unwrap(first))
            ELSE ~op.result.ok /\ op.result.msg = "No response from API"

C18_Witness ==
    /\ op.name = "polish_text_with_llm"
    /\ op.request.adapter = "openai"
    /\ op.resp.sent /\ op.resp.status = 200 /\ op.resp.body.parsed
    /\ op.resp.body.choices = <<ShortReply, OtherReply>>
    /\ op.result.ok /\ op.result.text = <<"H", "i">>

----------------------------------------------------------------------------
(* SpecOverlap: several hotkey tasks at once. Every trigger spawns its own *)
(* task (tauri::async_runtime::spawn), and the tasks share the tray        *)
(* tooltip and the clipboard.                                              *)

MaxOverlap == 2

OverlapCaptures == {[ok |-> FALSE], [ok |-> TRUE, text |-> <<" ", "a", " ">>]}

OverlapResponses == {SendError, Http(200, OpenAIBody(<<ShortReply>>))}

InFlight(r) == runs[r].pc \in {"awaiting", "resetting"}

InitOverlap ==
    /\ file = LegacyOpenAI
    /\ s = load_settings(file)
    /\ op = NoOp
    /\ PipelineIdle

NextOverlap ==
    \/ \E kind \in Kinds, outcome \in OverlapCaptures :
            Len(runs) < MaxOverlap /\ Trigger(kind, outcome)
    \/ \E r \in RunIds : Start(r)
    \/ \E r \in RunIds, resp \in OverlapResponses, clip_ok \in BOOLEAN :
            Complete(r, resp, clip_ok)
    \/ \E r \in RunIds : Reset(r)

SpecOverlap == InitOverlap /\ [][NextOverlap]_vars

(* C11 (SpecOverlap): while a run is between showing the processing state  *)
(* and resetting it, the busy signal (the tray tooltip) shows busy: a run  *)
(* that finishes does not clear it under a run still in progress.          *)
C11_BusyWhileInFlight ==
    \A r \in RunIds : InFlight(r) => tooltip = TooltipProcessing

(* C20 (SpecOverlap): while the provider call of one run hangs, a further  *)
(* trigger of either kind is admitted, and every other run can take its    *)
(* next step (send its request, receive its reply and apply the side       *)
(* effects, reset), the hung run staying where it is.                      *)
C20_RunsNeverBlocked ==
    \A r \in RunIds : runs[r].pc = "awaiting" =>
        /\ Len(runs) < MaxOverlap =>
                \A kind \in Kinds, outcome \in OverlapCaptures :
                    ENABLED (Trigger(kind, outcome) /\ runs'[r].pc = "awaiting")
        /\ \A q \in RunIds \ {r} :
            /\ runs[q].pc = "captured" =>
                    ENABLED (Start(q) /\ runs'[r].pc = "awaiting")
            /\ runs[q].pc = "awaiting" =>
                    \A resp \in OverlapResponses, clip_ok \in BOOLEAN :
                        ENABLED (Complete(q, resp, clip_ok) /\ runs'[r].pc = "awaiting")
            /\ runs[q].pc = "resetting" =>
                    ENABLED (Reset(q) /\ runs'[r].pc = "awaiting")

C20_Witness ==
    \E r, q \in RunIds :
        /\ r < q
        /\ runs[r].pc = "awaiting"
        /\ runs[q].pc = "done" /\ runs[q].kind = runs[r].kind
        /\ IsSome(runs[q].result) /\ Unwrap(runs[q].result).ok
        /\ Count(runs[q].log, "network") = 1
        /\ Count(runs[q].log, "clipboard") = 1
        /\ Count(runs[q].log, "idle") = 1
        /\ clipboard = Unwrap(runs[q].result).text

----------------------------------------------------------------------------
(* SpecPreview: one run at a time, over replies of many lengths, for the   *)
(* preview shown in the success notification.                              *)

\* 150 one-byte characters.
LongReply == Rep("a", 150)

\* 42 characters, 106 bytes: byte PreviewKeep is the end of a character.
MixedReply == Rep(WideChar, 32) \o Rep("a", 10)

PreviewReplies ==
    {ShortReply, WideReply, LongReply, MixedReply,
     Rep("a", 50), Rep("a", PreviewKeep), Rep("a", PreviewMax),
     Rep("a", PreviewMax + 1), Rep(WideChar, 33)}

PreviewResponses == {Http(200, OpenAIBody(<<x>>)) : x \in PreviewReplies}

PreviewSelections == {<<" ", "a", " ">>, <<"b">>}

InitPreview ==
    /\ file = LegacyOpenAI
    /\ s = load_settings(file)
    /\ op = NoOp
    /\ PipelineIdle

NextPreview ==
    \/ \E kind \in Kinds, text \in PreviewSelections :
            /\ \A r \in RunIds : runs[r].pc \in Ended
            /\ Len(runs) < MaxRuns
            /\ Trigger(kind, [ok |-> TRUE, text |-> text])
    \/ \E r \in RunIds : Start(r)
    \/ \E r \in RunIds, resp \in PreviewResponses, clip_ok \in BOOLEAN :
            Complete(r, resp, clip_ok)
    \/ \E r \in RunIds : Reset(r)

SpecPreview == InitPreview /\ [][NextPreview]_vars

(* C16 (SpecPreview): the body of a success notification is the result's   *)
(* first PreviewKeep characters followed by the ellipsis when the result   *)
(* has more than PreviewMax characters, and the whole result otherwise.    *)
C16_PreviewByCharacters ==
    \A r \in RunIds :
        (Succeeded(r) /\ IsSome(runs[r].notification)) =>
            LET text == Unwrap(runs[r].result).text
            IN Unwrap(runs[r].notification).body =
                    IF Len(text) > PreviewMax
                        THEN SubSeq(text, 1, PreviewKeep) \o Ellipsis
                        ELSE text

----------------------------------------------------------------------------
(* SpecPersist: the settings calls of the settings window next to the      *)
(* hotkey runs, over a settings.json that still holds a legacy key.        *)

\* The capture of a run: it failed, or returned a selection.
PersistCaptures == {[ok |-> FALSE], [ok |-> TRUE, text |-> <<"b">>]}

SaveCalls == {"save_settings", "save_api_key_for_provider"}

InitPersist ==
    /\ file = LegacyOpenAI
    /\ s = load_settings(file)
    /\ op = NoOp
    /\ PipelineIdle

NextPersist ==
    \/ LoadSettings
    \/ \E settings \in {s}, outcome \in WriteOutcomes :
            SaveSettings(settings, outcome)
    \/ \E p \in {"gemini"}, k \in {"sk-B"}, outcome \in WriteOutcomes :
            SaveApiKeyForProvider(p, k, outcome)
    \/ \E kind \in {"polish"}, outcome \in PersistCaptures :
            Len(runs) < MaxRuns /\ Trigger(kind, outcome)
    \/ \E r \in RunIds : Start(r)
    \/ \E r \in RunIds, resp \in OverlapResponses, clip_ok \in {TRUE} :
            Complete(r, resp, clip_ok)
    \/ \E r \in RunIds : Reset(r)

SpecPersist == InitPersist /\ [][NextPersist]_vars

(* C23 as stated (SpecPersist): the persisted file changes only in a step  *)
(* of save_settings or save_api_key_for_provider whose write succeeds:     *)
(* never in load_settings, in a step of a hotkey run, or in a failed save. *)
C23_FileKeptUntilSaveSucceeds ==
    [][file' # file =>
            /\ runs' = runs
            /\ op'.name \in SaveCalls
            /\ op'.write = "ok"]_vars

(* C23 (SpecPersist): load_settings and the steps of a hotkey run never    *)
(* change the persisted file; it changes only in a step of save_settings   *)
(* or save_api_key_for_provider, which replaces the record when the write  *)
(* succeeds and may leave the file truncated when the write fails.         *)
C23_FileChangedOnlyBySave ==
    [][file' # file =>
            /\ runs' = runs
            /\ op'.name \in SaveCalls
            /\ \/ op'.write = "ok" /\ file'.kind = "json" /\ file'.obj.api_key = None
               \/ op'.write = "failed_truncated" /\ file' = Corrupt]_vars

C23_Witness ==
    /\ op.name = "load_settings"
    /\ s.api_key = None /\ get_current_api_key(s) = "sk-A"
    /\ file = LegacyOpenAI /\ PendingLegacy(file)
    /\ \E r \in RunIds :
        /\ runs[r].pc = "done" /\ Succeeded(r)
        /\ Unwrap(runs[r].request).api_key = "sk-A"

====
